---------------------------- MODULE Spec2Model ----------------------------
(***************************************************************************)
(* Timekeeping and display engine of the multifunctional clock firmware.   *)
(*                                                                         *)
(* Two classes keep time.  ClockManager (ClockManager.h) counts seconds in *)
(* software from millis(), corrects itself from an NTP client and drives   *)
(* the two LED rings.  TimerManager (TimerManager.h) reads the hardware    *)
(* RTC, whose 1 Hz interrupt raises secondTickFlag.  The two classes share *)
(* no state: SpecClock runs the first, SpecTimer the second, SpecRender    *)
(* applies the time renderer to every time of day, SpecEpoch the epoch     *)
(* conversion to a range of epochs, SpecInsane gives the clock a server    *)
(* that reports a time of 1970, and SpecSync runs the time sources of both *)
(* classes.                                                                *)
(***************************************************************************)
EXTENDS Integers, Sequences, FiniteSets, TLC

(***************************************************************************)
(* config.h                                                                *)
(***************************************************************************)
LED_RING_MINUTES_COUNT == 60
LED_RING_HOURS_COUNT == 12
TIMEZONE_OFFSET == 1
DST_OFFSET == 1
COLOR_SECONDS == 16711680
COLOR_MINUTES == 65280
COLOR_HOURS == 255
COLOR_OVERLAP == 16776960
NIGHT_MODE_START == 22
NIGHT_MODE_END == 7
NIGHT_BRIGHTNESS == 50

(***************************************************************************)
(* Bounds of the model.                                                    *)
(***************************************************************************)
\* millis() does not pass this value in a run of SpecClock
MaxMillis == 9000
\* number of calls of syncWithNTP(), triggerHourAnimation() and
\* forceDisplayUpdate() in a run of SpecClock
MaxCalls == 2

\* time between the previous operation and a pass of the main loop, in ms
Delays == {0, 1000, 2000}
\* the same, for a main loop that does not run in step with the seconds
FineDelays == {0, 500, 1000}
\* value of millis() when init() runs
BootMillis == {0}
\* time since the start of the animation at which updateHourAnimation() is
\* called alone: every 50 ms up to 5950 ms
ChaseElapsed == { 50 * n : n \in 0..119 }
\* midnight UTC of 2025-01-05, the day the sample epochs lie in
DayBase == 20093 * 86400
\* UTC time at which the device boots; an NTP answer is applied as UTC + 3 h,
\* which at boot is 21:59:58, 06:59:58, 23:59:58, 12:34:32 or 08:15:13
BootEpochs == { DayBase + 68398, DayBase + 14398, DayBase + 75598,
                DayBase + 34472, DayBase + 18913 }
\* UTC times a faulty NTP server reports at boot: 1970-01-01 00:00:00 and a
\* day of 1971
InsaneBootEpochs == { 0, 400 * 86400 + 68398 }
\* number of failed polls before the NTP server answers: the first poll,
\* the poll after 1 s, the poll at the end of the wait, and one the wait
\* does not reach
AnswerPolls == {0, 10, 50, 51}
NoAnswer == 0 - 1
\* updateTimeFromEpoch() was not called yet
NoEpoch == 0 - 1
\* days since 1970-01-01 of the epochs given to updateTimeFromEpoch() alone:
\* 2023-12-29 .. 2024-03-03 (a year boundary, the month boundaries to March
\* and the leap day 2024-02-29 = 19782) and 2024-12-29 .. 2025-01-03
EpochDays == (19720 .. 19785) \cup (20086 .. 20091)
\* seconds of the day of those epochs: UTC 00:00:00, 12:34:56, 21:59:59,
\* 22:00:00 (midnight after the two hours the conversion adds), 23:59:59
EpochSeconds == {0, 45296, 79199, 79200, 86399}
EpochSamples == { d * 86400 + t : d \in EpochDays, t \in EpochSeconds }

(***************************************************************************)
(* FastLED: CRGB pixels                                                    *)
(***************************************************************************)
CRGB(r, g, b) == <<r, g, b>>
Black == CRGB(0, 0, 0)
White == CRGB(255, 255, 255)
\* CRGB(c >> 16, (c >> 8) & 0xFF, c & 0xFF) of a 24-bit colour constant
ColorOf(c) == CRGB(c \div 65536, (c \div 256) % 256, c % 256)

\* unsigned difference of two millis() readings
MillisDiff(a, b) == a - b

VARIABLES
  \* ---- ClockManager fields
  minutesLEDs, hoursLEDs, currentTime, lastTimeUpdate, timeValidated,
  inHourAnimation, animationStart, animationStep, nightModeActive,
  currentBrightness, lastHour, lastMinute, lastSecond,
  \* ---- FastLED: global brightness, last frame transferred by show(), and
  \*      the number of setBrightness()/show() calls of the last operation
  flBrightness, flFrame, flSetBrightnessCalls, flShowCalls,
  \* ---- history: the lowest and highest index at which the last
  \*      operation wrote hoursLEDs and minutesLEDs (NoWrites: it wrote none)
  hoursWrites, minutesWrites,
  \* ---- NTPClient: whether a time was ever received, the UTC epoch
  \*      received last and the millis() at which it was received
  ntpTimeSet, ntpEpoch, ntpLastUpdate,
  \* ---- environment of ClockManager
  \*      (epochAtBoot: UTC time at which millis() was 0)
  millis, epochAtBoot,
  \* ---- last ClockManager operation, its return value, the poll at which
  \*      the NTP server answered it, and the number of calls other than
  \*      update() so far
  lastOp, ret, lastAnswer, calls,
  \* ---- what the last syncWithNTP() read from WiFi.status(), and the
  \*      number of its timeClient->update() polls
  wifiStatus, polls,
  \* ---- argument of updateTimeFromEpoch(): of its last call, or of the
  \*      call about to be made
  epochArg

clockVars == << minutesLEDs, hoursLEDs, currentTime, lastTimeUpdate,
                timeValidated, inHourAnimation, animationStart, animationStep,
                nightModeActive, currentBrightness, lastHour, lastMinute,
                lastSecond, flBrightness, flFrame, flSetBrightnessCalls,
                flShowCalls, hoursWrites, minutesWrites, ntpTimeSet,
                ntpEpoch, ntpLastUpdate, millis,
                epochAtBoot, lastOp, ret, lastAnswer, calls, wifiStatus,
                polls, epochArg >>

(***************************************************************************)
(* TimerManager: bounds and state                                          *)
(***************************************************************************)
\* tmMillis does not pass this value in a run of SpecTimer / SpecTimerLoop
MaxTmMillis == 6000
\* time passes in steps of this many ms
TmQuantum == {1000}
\* value of millis() when the TimerManager is constructed
TmBootMillis == {0}
\* arguments of startAnimation() and startDisplayTimer(), in ms
AnimDurations == {0, 300, 5000}
DisplayDurations == {300}
\* epochs passed to setTimeFromEpoch(): with the default offset of one hour
\* the RTC is set to 21:59:59 of 2025-01-05
TmEpochs == { DayBase + 75599 }
\* a default-constructed RTCTime, 2000-01-01 00:00:00
DefaultRTCTime == 10957 * 86400
\* init(): "Approximation janvier 2025"
InitialEpoch == 1736000000
NotStarted == 0 - 1

VARIABLES
  \* ---- TimerManager fields (currentTime is tmCurrentTime here)
  secondTickFlag, animationActive, animationTimer, displayTimer,
  tmCurrentTime, timeInitialized,
  \* ---- RTC peripheral: its time in epoch seconds, whether the periodic
  \*      callback is armed, and whether its interrupt is being raised
  rtcTime, rtcArmed, rtcIrq,
  \* ---- whether RTC.begin() has succeeded
  rtcBegun,
  \* ---- millis() of the TimerManager run
  tmMillis,
  \* ---- position of the main context: "constructed", "failed", "idle"
  \*      (between calls) or inside update(): "read", "clear", "timers"
  tmPc,
  \* ---- return value of init()
  tmRet,
  \* ---- history: interrupts served since update() last returned;
  \*      millis(), RTC second and argument of the last startAnimation()
  irqCount, animStartMillis, animStartRtc, animDuration,
  \* ---- history: millis() and argument of the last startDisplayTimer()
  displayStartMillis, displayDuration

timerVars == << secondTickFlag, animationActive, animationTimer,
                displayTimer, tmCurrentTime, timeInitialized, rtcTime,
                rtcArmed, rtcIrq, rtcBegun, tmMillis, tmPc, tmRet, irqCount,
                animStartMillis, animStartRtc, animDuration,
                displayStartMillis, displayDuration >>

tmFields == << secondTickFlag, animationActive, animationTimer,
               displayTimer, tmCurrentTime, timeInitialized >>
tmHistory == << irqCount, animStartMillis, animStartRtc, animDuration >>
\* what init() has set up in the RTC peripheral
rtcSetup == << rtcBegun, rtcArmed >>
tmDisplayHistory == << displayStartMillis, displayDuration >>

VARIABLES
  \* ---- the UIManager object (a record of its fields)
  uiManager,
  \* ---- millis() of the UIManager run
  uiMillis,
  \* ---- level of the two button pins (LOW while the button is down)
  modePin, selectPin,
  \* ---- history: millis() at which each pin last went LOW, and the
  \*      number of calls of each press handler since then
  modeDownSince, selectDownSince, modeHandled, selectHandled,
  \* ---- history: millis() of the last update() that called a press handler
  lastAccepted

uiHistory == << modeDownSince, selectDownSince, modeHandled, selectHandled,
                lastAccepted >>
uiVars == << uiManager, uiMillis, modePin, selectPin, uiHistory >>

VARIABLES
  \* ---- two readings of millis(), each as << high, low >> 16-bit halves of
  \*      the unsigned long: an earlier one stored in a timestamp field and
  \*      the current one
  storedMillis, currentMillis,
  \* ---- the time that really went by between the two readings, in ms, as
  \*      << high, low >> halves
  gap,
  \* ---- results of the three elapsed-time tests, and which were evaluated
  tickDue, animationRunning, uiTimedOut, tested

wrapVars == << storedMillis, currentMillis, gap, tickDue, animationRunning,
               uiTimedOut, tested >>

vars == << clockVars, timerVars, uiVars, wrapVars >>

(***************************************************************************)
(* The ClockManager object and the FastLED singleton as one record, so     *)
(* that the member functions below are functions from record to record.    *)
(***************************************************************************)
NoWrites == << >>

Self ==
  [ minutesLEDs |-> minutesLEDs, hoursLEDs |-> hoursLEDs,
    currentTime |-> currentTime, lastTimeUpdate |-> lastTimeUpdate,
    timeValidated |-> timeValidated, inHourAnimation |-> inHourAnimation,
    animationStart |-> animationStart, animationStep |-> animationStep,
    nightModeActive |-> nightModeActive,
    currentBrightness |-> currentBrightness,
    lastHour |-> lastHour, lastMinute |-> lastMinute,
    lastSecond |-> lastSecond,
    flBrightness |-> flBrightness, flFrame |-> flFrame,
    flSetBrightnessCalls |-> 0, flShowCalls |-> 0,
    hoursWrites |-> NoWrites, minutesWrites |-> NoWrites ]

Commit(o) ==
  /\ minutesLEDs' = o.minutesLEDs
  /\ hoursLEDs' = o.hoursLEDs
  /\ currentTime' = o.currentTime
  /\ lastTimeUpdate' = o.lastTimeUpdate
  /\ timeValidated' = o.timeValidated
  /\ inHourAnimation' = o.inHourAnimation
  /\ animationStart' = o.animationStart
  /\ animationStep' = o.animationStep
  /\ nightModeActive' = o.nightModeActive
  /\ currentBrightness' = o.currentBrightness
  /\ lastHour' = o.lastHour
  /\ lastMinute' = o.lastMinute
  /\ lastSecond' = o.lastSecond
  /\ flBrightness' = o.flBrightness
  /\ flFrame' = o.flFrame
  /\ flSetBrightnessCalls' = o.flSetBrightnessCalls
  /\ flShowCalls' = o.flShowCalls
  /\ hoursWrites' = o.hoursWrites
  /\ minutesWrites' = o.minutesWrites

\* the current state is the record o
IsState(o) ==
  /\ minutesLEDs = o.minutesLEDs
  /\ hoursLEDs = o.hoursLEDs
  /\ currentTime = o.currentTime
  /\ lastTimeUpdate = o.lastTimeUpdate
  /\ timeValidated = o.timeValidated
  /\ inHourAnimation = o.inHourAnimation
  /\ animationStart = o.animationStart
  /\ animationStep = o.animationStep
  /\ nightModeActive = o.nightModeActive
  /\ currentBrightness = o.currentBrightness
  /\ lastHour = o.lastHour
  /\ lastMinute = o.lastMinute
  /\ lastSecond = o.lastSecond
  /\ flBrightness = o.flBrightness
  /\ flFrame = o.flFrame
  /\ flSetBrightnessCalls = o.flSetBrightnessCalls
  /\ flShowCalls = o.flShowCalls
  /\ hoursWrites = o.hoursWrites
  /\ minutesWrites = o.minutesWrites

\* FastLED.show(): transfers both pixel arrays to the rings
FastLEDshow(o) ==
  [o EXCEPT !.flShowCalls = @ + 1,
            !.flFrame = [minutes |-> o.minutesLEDs, hours |-> o.hoursLEDs]]

\* the C++ operator %: the remainder has the sign of the dividend
Rem(a, b) == IF a >= 0 THEN a % b ELSE 0 - ((0 - a) % b)

MinOf(S) == CHOOSE x \in S : \A y \in S : x <= y
MaxOf(S) == CHOOSE x \in S : \A y \in S : x >= y

\* the range of written indices w after writes at every index of lo..hi
Written(w, lo, hi) ==
  IF w = NoWrites
  THEN << lo, hi >>
  ELSE << IF lo < w[1] THEN lo ELSE w[1], IF hi > w[2] THEN hi ELSE w[2] >>

\* hoursLEDs[i] = colour and minutesLEDs[i] = colour; a write outside the
\* array leaves the array alone
WriteHoursLED(o, i, colour) ==
  [o EXCEPT !.hoursWrites = Written(@, i, i),
            !.hoursLEDs = IF i \in DOMAIN @ THEN [@ EXCEPT ![i] = colour]
                          ELSE @]

WriteMinutesLED(o, i, colour) ==
  [o EXCEPT !.minutesWrites = Written(@, i, i),
            !.minutesLEDs = IF i \in DOMAIN @ THEN [@ EXCEPT ![i] = colour]
                            ELSE @]

\* FastLED.setBrightness(b)
FastLEDsetBrightness(o, b) ==
  [o EXCEPT !.flSetBrightnessCalls = @ + 1, !.flBrightness = b]

\* variant: the hour ring is not cleared
clearAllLEDs_minutesOnly(o) ==
  [o EXCEPT !.minutesLEDs = [i \in 0..(LED_RING_MINUTES_COUNT - 1) |-> Black]]

clearAllLEDs(o) ==
  [o EXCEPT !.minutesLEDs = [i \in 0..(LED_RING_MINUTES_COUNT - 1) |-> Black],
            !.hoursLEDs = [i \in 0..(LED_RING_HOURS_COUNT - 1) |-> Black],
            !.minutesWrites = Written(@, 0, LED_RING_MINUTES_COUNT - 1),
            !.hoursWrites = Written(@, 0, LED_RING_HOURS_COUNT - 1)]

\* variant: no overlap colour, the second written last wins
updateLEDDisplay_lastWriteWins(o) ==
  LET c == clearAllLEDs(o)
      displayHour == c.currentTime.hours % 12
      h == [c EXCEPT !.hoursLEDs[displayHour] = ColorOf(COLOR_HOURS)]
      m == [h EXCEPT !.minutesLEDs[h.currentTime.minutes] =
                        ColorOf(COLOR_MINUTES)]
      s == [m EXCEPT !.minutesLEDs[m.currentTime.seconds] =
                        ColorOf(COLOR_SECONDS)]
  IN  FastLEDshow(s)

\* variant: the hour pixel is indexed by the 24-hour value
updateLEDDisplay_noModulo(o) ==
  LET c == clearAllLEDs(o)
      h == WriteHoursLED(c, c.currentTime.hours, ColorOf(COLOR_HOURS))
      m == WriteMinutesLED(h, h.currentTime.minutes, ColorOf(COLOR_MINUTES))
      s == WriteMinutesLED(m, m.currentTime.seconds, ColorOf(COLOR_SECONDS))
      v == IF s.currentTime.minutes = s.currentTime.seconds
           THEN WriteMinutesLED(s, s.currentTime.minutes,
                                ColorOf(COLOR_OVERLAP))
           ELSE s
  IN  FastLEDshow(v)

updateLEDDisplay(o) ==
  LET c == clearAllLEDs(o)
      displayHour == Rem(c.currentTime.hours, 12)
      h == WriteHoursLED(c, displayHour, ColorOf(COLOR_HOURS))
      m == WriteMinutesLED(h, h.currentTime.minutes, ColorOf(COLOR_MINUTES))
      s == WriteMinutesLED(m, m.currentTime.seconds, ColorOf(COLOR_SECONDS))
      v == IF s.currentTime.minutes = s.currentTime.seconds
           THEN WriteMinutesLED(s, s.currentTime.minutes,
                                ColorOf(COLOR_OVERLAP))
           ELSE s
  IN  FastLEDshow(v)

\* variant: a change of the seconds alone is not a change
hasTimeChanged_noSeconds(o) ==
  \/ o.currentTime.hours # o.lastHour
  \/ o.currentTime.minutes # o.lastMinute

hasTimeChanged(o) ==
  \/ o.currentTime.hours # o.lastHour
  \/ o.currentTime.minutes # o.lastMinute
  \/ o.currentTime.seconds # o.lastSecond

updateLastDisplayedTime(o) ==
  [o EXCEPT !.lastHour = o.currentTime.hours,
            !.lastMinute = o.currentTime.minutes,
            !.lastSecond = o.currentTime.seconds]

\* variant: night starts after the hour NIGHT_MODE_START
updateNightMode_strictStart(o) ==
  LET shouldBeNightMode == \/ o.currentTime.hours > NIGHT_MODE_START
                           \/ o.currentTime.hours < NIGHT_MODE_END
  IN  IF shouldBeNightMode # o.nightModeActive
      THEN LET b == IF shouldBeNightMode THEN NIGHT_BRIGHTNESS ELSE 255
           IN  FastLEDsetBrightness(
                 [o EXCEPT !.nightModeActive = shouldBeNightMode,
                           !.currentBrightness = b], b)
      ELSE o

\* variant: the brightness is written in every pass
updateNightMode_alwaysWrites(o) ==
  LET shouldBeNightMode == \/ o.currentTime.hours >= NIGHT_MODE_START
                           \/ o.currentTime.hours < NIGHT_MODE_END
      b == IF shouldBeNightMode THEN NIGHT_BRIGHTNESS ELSE 255
  IN  FastLEDsetBrightness(
        [o EXCEPT !.nightModeActive = shouldBeNightMode,
                  !.currentBrightness = b], b)

\* variant: the flag changes and currentBrightness is left alone
updateNightMode_keepsBrightness(o) ==
  LET shouldBeNightMode == \/ o.currentTime.hours >= NIGHT_MODE_START
                           \/ o.currentTime.hours < NIGHT_MODE_END
  IN  IF shouldBeNightMode # o.nightModeActive
      THEN LET b == IF shouldBeNightMode THEN NIGHT_BRIGHTNESS ELSE 255
           IN  FastLEDsetBrightness(
                 [o EXCEPT !.nightModeActive = shouldBeNightMode], b)
      ELSE o

updateNightMode(o) ==
  LET shouldBeNightMode == \/ o.currentTime.hours >= NIGHT_MODE_START
                           \/ o.currentTime.hours < NIGHT_MODE_END
  IN  IF shouldBeNightMode # o.nightModeActive
      THEN LET b == IF shouldBeNightMode THEN NIGHT_BRIGHTNESS ELSE 255
           IN  FastLEDsetBrightness(
                 [o EXCEPT !.nightModeActive = shouldBeNightMode,
                           !.currentBrightness = b], b)
      ELSE o

triggerHourAnimation(o, now) ==
  IF ~o.inHourAnimation
  THEN [o EXCEPT !.inHourAnimation = TRUE, !.animationStart = now,
                 !.animationStep = 0]
  ELSE o

\* updateInternalTime(), as the variant without the day rollover
updateInternalTime_noDayRollover(o, now) ==
  LET t == o.currentTime
      s1 == t.seconds + 1
  IN  IF s1 >= 60
      THEN LET m1 == t.minutes + 1
           IN  IF m1 >= 60
               THEN LET a == triggerHourAnimation(o, now)
                    IN  [a EXCEPT !.currentTime.seconds = 0,
                                  !.currentTime.minutes = 0,
                                  !.currentTime.hours = t.hours + 1]
               ELSE [o EXCEPT !.currentTime.seconds = 0,
                              !.currentTime.minutes = m1]
      ELSE [o EXCEPT !.currentTime.seconds = s1]

updateInternalTime(o, now) ==
  LET t == o.currentTime
      s1 == t.seconds + 1
  IN  IF s1 >= 60
      THEN LET m1 == t.minutes + 1
           IN  IF m1 >= 60
               THEN LET h1 == t.hours + 1
                        a == triggerHourAnimation(o, now)
                    IN  [a EXCEPT !.currentTime.seconds = 0,
                                  !.currentTime.minutes = 0,
                                  !.currentTime.hours =
                                     IF h1 >= 24 THEN 0 ELSE h1]
               ELSE [o EXCEPT !.currentTime.seconds = 0,
                              !.currentTime.minutes = m1]
      ELSE [o EXCEPT !.currentTime.seconds = s1]

\* variant: the hour ring is not cleared before the frame is drawn
updateHourAnimation_noClear(o, now) ==
  LET elapsed == MillisDiff(now, o.animationStart)
  IN  IF elapsed < 5000
      THEN LET pos == (elapsed \div 100) % LED_RING_HOURS_COUNT
               lit == { (pos + i) % LED_RING_HOURS_COUNT : i \in 0..2 }
           IN  FastLEDshow(
                 [o EXCEPT !.hoursLEDs =
                    [i \in 0..(LED_RING_HOURS_COUNT - 1) |->
                       IF i \in lit THEN White ELSE o.hoursLEDs[i]]])
      ELSE [o EXCEPT !.inHourAnimation = FALSE]

updateHourAnimation(o, now) ==
  LET elapsed == MillisDiff(now, o.animationStart)
  IN  IF elapsed < 5000
      THEN LET pos == (elapsed \div 100) % LED_RING_HOURS_COUNT
               lit == { (pos + i) % LED_RING_HOURS_COUNT : i \in 0..2 }
           IN  FastLEDshow(
                 [o EXCEPT !.hoursLEDs =
                    [i \in 0..(LED_RING_HOURS_COUNT - 1) |->
                       IF i \in lit THEN White ELSE Black],
                           !.hoursWrites =
                    Written(Written(@, 0, LED_RING_HOURS_COUNT - 1),
                            MinOf(lit), MaxOf(lit))])
      ELSE [o EXCEPT !.inHourAnimation = FALSE]

isLeapYear(year) ==
  (year % 4 = 0 /\ year % 100 # 0) \/ (year % 400 = 0)

\* the loop "while (days >= 365)" of updateTimeFromEpoch: <<year, days>>
RECURSIVE YearLoop(_, _)
YearLoop(year, days) ==
  IF days >= 365
  THEN IF isLeapYear(year) /\ days >= 366 THEN YearLoop(year + 1, days - 366)
       ELSE IF ~isLeapYear(year) THEN YearLoop(year + 1, days - 365)
       ELSE <<year, days>>
  ELSE <<year, days>>

updateTimeFromEpoch(o, epochTime) ==
  LET e0 == epochTime + TIMEZONE_OFFSET * 3600
      e1 == e0 + DST_OFFSET * 3600
      e2 == e1 \div 60
      e3 == e2 \div 60
      e4 == e3 \div 24
      yd == YearLoop(1970, e4)
  IN  [o EXCEPT !.currentTime =
         [ seconds |-> e1 % 60, minutes |-> e2 % 60, hours |-> e3 % 24,
           weekday |-> (e4 + 4) % 7, year |-> yd[1], month |-> 1,
           day |-> yd[2] + 1, isValid |-> TRUE ]]

update(o, now) ==
  LET a == IF MillisDiff(now, o.lastTimeUpdate) >= 1000
           THEN [updateInternalTime(o, now) EXCEPT !.lastTimeUpdate = now]
           ELSE o
      b == updateNightMode(a)
      c == IF b.inHourAnimation THEN updateHourAnimation(b, now) ELSE b
  IN  IF hasTimeChanged(c)
      THEN updateLastDisplayedTime(updateLEDDisplay(c))
      ELSE c

\* NTPClient::getEpochTime(): the client was built with a time offset of
\* TIMEZONE_OFFSET * 3600 and extrapolates from the last answer
getEpochTime(epoch, lastUpdate, now) ==
  TIMEZONE_OFFSET * 3600 + epoch + (MillisDiff(now, lastUpdate) \div 1000)

isTimeValid == timeValidated /\ currentTime.isValid

getCurrentTime == currentTime

\* the object after ClockManager() and init() at millis() = now
Constructed(now) ==
  [ minutesLEDs |-> [i \in 0..(LED_RING_MINUTES_COUNT - 1) |-> Black],
    hoursLEDs |-> [i \in 0..(LED_RING_HOURS_COUNT - 1) |-> Black],
    currentTime |-> [ hours |-> 0, minutes |-> 0, seconds |-> 0, day |-> 1,
                      month |-> 1, year |-> 2025, weekday |-> 1,
                      isValid |-> FALSE ],
    lastTimeUpdate |-> now, timeValidated |-> FALSE,
    inHourAnimation |-> FALSE, animationStart |-> 0, animationStep |-> 0,
    nightModeActive |-> FALSE, currentBrightness |-> 255,
    lastHour |-> 0 - 1, lastMinute |-> 0 - 1, lastSecond |-> 0 - 1,
    flBrightness |-> 255,
    flFrame |-> [ minutes |-> [i \in 0..(LED_RING_MINUTES_COUNT - 1) |-> Black],
                  hours |-> [i \in 0..(LED_RING_HOURS_COUNT - 1) |-> Black] ],
    flSetBrightnessCalls |-> 1, flShowCalls |-> 1,
    hoursWrites |-> << 0, LED_RING_HOURS_COUNT - 1 >>,
    minutesWrites |-> << 0, LED_RING_MINUTES_COUNT - 1 >> ]

(***************************************************************************)
(* State after ClockManager() and init()                                   *)
(***************************************************************************)
ClockInit ==
  /\ millis \in BootMillis
  /\ IsState(Constructed(millis))
  /\ ntpTimeSet = FALSE
  /\ ntpEpoch = 0
  /\ ntpLastUpdate = 0
  /\ epochAtBoot \in BootEpochs
  /\ lastOp = "init"
  /\ ret = "true"
  /\ lastAnswer = NoAnswer
  /\ calls = 0
  /\ wifiStatus = "WL_IDLE_STATUS"
  /\ polls = 0
  /\ epochArg = NoEpoch

(***************************************************************************)
(* Operations of ClockManager                                              *)
(***************************************************************************)
\* a pass of the main loop, d ms after the previous operation
UpdateAfter(d) ==
  /\ millis + d <= MaxMillis
  /\ millis' = millis + d
  /\ Commit(update(Self, millis + d))
  /\ lastOp' = "update"
  /\ ret' = "void"
  /\ UNCHANGED << ntpTimeSet, ntpEpoch, ntpLastUpdate, epochAtBoot,
                  lastAnswer, calls, wifiStatus, polls, epochArg,
                  timerVars, uiVars, wrapVars >>

Update ==
  \E d \in Delays : UpdateAfter(d)

\* a pass of a main loop whose period is not a whole number of seconds
UpdateFine ==
  \E d \in FineDelays : UpdateAfter(d)

ForceDisplayUpdate ==
  /\ calls < MaxCalls
  /\ calls' = calls + 1
  /\ Commit(updateLEDDisplay(Self))
  /\ lastOp' = "forceDisplayUpdate"
  /\ ret' = "void"
  /\ UNCHANGED << ntpTimeSet, ntpEpoch, ntpLastUpdate, millis, epochAtBoot,
                  lastAnswer, wifiStatus, polls, epochArg, timerVars, uiVars, wrapVars >>

TriggerHourAnimation ==
  /\ calls < MaxCalls
  /\ calls' = calls + 1
  /\ Commit(triggerHourAnimation(Self, millis))
  /\ lastOp' = "triggerHourAnimation"
  /\ ret' = "void"
  /\ UNCHANGED << ntpTimeSet, ntpEpoch, ntpLastUpdate, millis, epochAtBoot,
                  lastAnswer, wifiStatus, polls, epochArg, timerVars, uiVars, wrapVars >>

\* UTC time the NTP server reports at millis() = now
ServerEpoch(now) == epochAtBoot + (now \div 1000)

\* syncWithNTP() when WiFi.status() != WL_CONNECTED
SyncNotConnected ==
  /\ calls < MaxCalls
  /\ calls' = calls + 1
  /\ Commit(Self)
  /\ lastOp' = "syncWithNTP"
  /\ ret' = "false"
  /\ lastAnswer' = NoAnswer
  /\ wifiStatus' = "WL_DISCONNECTED"
  /\ polls' = 0
  /\ UNCHANGED << ntpTimeSet, ntpEpoch, ntpLastUpdate, millis, epochAtBoot,
                  epochArg, timerVars, uiVars, wrapVars >>

\* variant: the wait ends once more than 5000 ms have passed
RECURSIVE WaitLoop_inclusive(_, _, _)
WaitLoop_inclusive(k, elapsed, polled) ==
  IF k # NoAnswer /\ polled = k
  THEN [ answered |-> TRUE, waited |-> elapsed, polls |-> polled + 1 ]
  ELSE IF elapsed <= 5000
  THEN WaitLoop_inclusive(k, elapsed + 100, polled + 1)
  ELSE [ answered |-> FALSE, waited |-> elapsed, polls |-> polled + 1 ]

\* syncWithNTP(), lines 190-193:
\*   while (!timeClient->update() && millis() - startTime < 5000) delay(100);
\* entered elapsed ms after startTime with polled polls made; the server
\* answers after k failed polls, or not at all.
RECURSIVE WaitLoop(_, _, _)
WaitLoop(k, elapsed, polled) ==
  IF k # NoAnswer /\ polled = k
  THEN [ answered |-> TRUE, waited |-> elapsed, polls |-> polled + 1 ]
  ELSE IF elapsed < 5000
  THEN WaitLoop(k, elapsed + 100, polled + 1)
  ELSE [ answered |-> FALSE, waited |-> elapsed, polls |-> polled + 1 ]

\* syncWithNTP() with WiFi connected
SyncConnected ==
  \E k \in AnswerPolls \cup {NoAnswer} :
    LET w == WaitLoop(k, 0, 0)
        now == millis + w.waited
        set == ntpTimeSet \/ w.answered
        epoch == IF w.answered THEN ServerEpoch(now) ELSE ntpEpoch
        at == IF w.answered THEN now ELSE ntpLastUpdate
    IN  /\ calls < MaxCalls
        /\ calls' = calls + 1
        /\ now <= MaxMillis
        /\ millis' = now
        /\ ntpTimeSet' = set
        /\ ntpEpoch' = epoch
        /\ ntpLastUpdate' = at
        /\ IF set
           THEN /\ Commit([updateTimeFromEpoch(Self,
                               getEpochTime(epoch, at, now))
                             EXCEPT !.timeValidated = TRUE])
                /\ epochArg' = getEpochTime(epoch, at, now)
                /\ ret' = "true"
           ELSE /\ Commit(Self)
                /\ UNCHANGED epochArg
                /\ ret' = "false"
        /\ lastOp' = "syncWithNTP"
        /\ lastAnswer' = IF w.answered THEN k ELSE NoAnswer
        /\ wifiStatus' = "WL_CONNECTED"
        /\ polls' = w.polls
        /\ UNCHANGED << epochAtBoot, timerVars, uiVars, wrapVars >>

ClockNext ==
  \/ Update
  \/ ForceDisplayUpdate
  \/ TriggerHourAnimation
  \/ SyncNotConnected
  \/ SyncConnected



(***************************************************************************)
(* TimerManager: operations                                                *)
(***************************************************************************)
\* RTCTime::getMinutes(), getSeconds() of an epoch value
RtcMinutes(t) == (t \div 60) % 60
RtcSeconds(t) == t % 60

\* state after TimerManager()
TimerInit ==
  /\ secondTickFlag = FALSE
  /\ animationActive = FALSE
  /\ animationTimer = 0
  /\ displayTimer = 0
  /\ tmCurrentTime = DefaultRTCTime
  /\ timeInitialized = FALSE
  /\ rtcTime = NotStarted
  /\ rtcArmed = FALSE
  /\ rtcBegun = FALSE
  /\ rtcIrq = FALSE
  /\ tmMillis \in TmBootMillis
  /\ tmPc = "constructed"
  /\ tmRet = "void"
  /\ irqCount = 0
  /\ animStartMillis = NotStarted
  /\ animStartRtc = NotStarted
  /\ animDuration = NotStarted
  /\ displayStartMillis = NotStarted
  /\ displayDuration = NotStarted

\* variant: a failure of RTC.setPeriodicCallback() is ignored
TmInit_ignoresCallback ==
  \E beginOk \in BOOLEAN, callbackOk \in BOOLEAN :
    /\ tmPc = "constructed"
    /\ IF ~beginOk
       THEN /\ tmRet' = "false"
            /\ tmPc' = "failed"
            /\ UNCHANGED << rtcTime, rtcBegun, rtcArmed >>
       ELSE /\ tmRet' = "true"
            /\ tmPc' = "idle"
            /\ rtcBegun' = TRUE
            /\ rtcArmed' = callbackOk
            /\ rtcTime' = InitialEpoch + (tmMillis \div 1000)
    /\ UNCHANGED << tmFields, tmHistory, rtcIrq, tmMillis, tmDisplayHistory,
                  clockVars, uiVars, wrapVars >>

\* init(): RTC.begin() and RTC.setPeriodicCallback() succeed or fail
TmInit ==
  \E beginOk \in BOOLEAN, callbackOk \in BOOLEAN :
    /\ tmPc = "constructed"
    /\ IF ~beginOk
       THEN /\ tmRet' = "false"
            /\ tmPc' = "failed"
            /\ UNCHANGED << rtcTime, rtcBegun, rtcArmed >>
       ELSE IF ~callbackOk
       THEN /\ tmRet' = "false"
            /\ tmPc' = "failed"
            /\ rtcBegun' = TRUE
            /\ UNCHANGED << rtcTime, rtcArmed >>
       ELSE /\ tmRet' = "true"
            /\ tmPc' = "idle"
            /\ rtcBegun' = TRUE
            /\ rtcArmed' = TRUE
            /\ rtcTime' = InitialEpoch + (tmMillis \div 1000)
    /\ UNCHANGED << tmFields, tmHistory, rtcIrq, tmMillis, tmDisplayHistory,
                  clockVars, uiVars, wrapVars >>

\* time passes; each full second the RTC advances and raises its interrupt
TimePasses ==
  \E d \in TmQuantum :
    /\ tmPc \notin {"constructed", "failed"}
    /\ ~rtcIrq
    /\ tmMillis + d <= MaxTmMillis
    /\ tmMillis' = tmMillis + d
    /\ IF (tmMillis + d) \div 1000 > tmMillis \div 1000
       THEN /\ rtcTime' = rtcTime + 1
            /\ rtcIrq' = rtcArmed
       ELSE UNCHANGED << rtcTime, rtcIrq >>
    /\ UNCHANGED << tmFields, tmHistory, rtcSetup, tmPc, tmRet,
                    tmDisplayHistory,
                  clockVars, uiVars, wrapVars >>

\* variant: the handler also counts the animation down
rtcCallback_countsAnimation ==
  /\ rtcIrq
  /\ rtcIrq' = FALSE
  /\ secondTickFlag' = TRUE
  /\ irqCount' = irqCount + 1
  /\ animationTimer' = IF animationTimer > 0 THEN animationTimer - 1
                       ELSE animationTimer
  /\ UNCHANGED << animationActive, displayTimer,
                  tmCurrentTime, timeInitialized, rtcTime, rtcSetup,
                  tmMillis, tmPc, tmRet, animStartMillis,
                  animStartRtc, animDuration, tmDisplayHistory,
                  clockVars, uiVars, wrapVars >>

\* the interrupt handler; it preempts the main context at any position
rtcCallback ==
  /\ rtcIrq
  /\ rtcIrq' = FALSE
  /\ secondTickFlag' = TRUE
  /\ irqCount' = irqCount + 1
  /\ UNCHANGED << animationActive, animationTimer, displayTimer,
                  tmCurrentTime, timeInitialized, rtcTime, rtcSetup,
                  tmMillis, tmPc, tmRet, animStartMillis,
                  animStartRtc, animDuration, tmDisplayHistory,
                  clockVars, uiVars, wrapVars >>

\* update(), line 93: if (secondTickFlag)
UpdateCheck ==
  /\ tmPc = "idle"
  /\ ~rtcIrq
  /\ tmPc' = IF secondTickFlag THEN "read" ELSE "timers"
  /\ UNCHANGED tmRet
  /\ UNCHANGED << tmFields, tmHistory, rtcTime, rtcSetup, rtcIrq, tmMillis,
                  tmDisplayHistory,
                  clockVars, uiVars, wrapVars >>

\* update(), line 95: RTC.getTime(currentTime)
UpdateRead ==
  /\ tmPc = "read"
  /\ ~rtcIrq
  /\ tmCurrentTime' = rtcTime
  /\ tmPc' = "clear"
  /\ UNCHANGED << secondTickFlag, animationActive, animationTimer,
                  displayTimer, timeInitialized, rtcTime, rtcSetup, rtcIrq,
                  tmMillis, tmRet, tmHistory, tmDisplayHistory,
                  clockVars, uiVars, wrapVars >>

\* variant: the flag is left set
UpdateClear_keepsFlag ==
  /\ tmPc = "clear"
  /\ ~rtcIrq
  /\ tmPc' = "timers"
  /\ UNCHANGED << secondTickFlag, animationActive, animationTimer,
                  displayTimer, tmCurrentTime, timeInitialized, rtcTime,
                  rtcSetup, rtcIrq, tmMillis, tmRet, tmHistory, tmDisplayHistory,
                  clockVars, uiVars, wrapVars >>

\* update(), line 98: secondTickFlag = false
UpdateClear ==
  /\ tmPc = "clear"
  /\ ~rtcIrq
  /\ secondTickFlag' = FALSE
  /\ tmPc' = "timers"
  /\ UNCHANGED << animationActive, animationTimer, displayTimer,
                  tmCurrentTime, timeInitialized, rtcTime, rtcSetup, rtcIrq,
                  tmMillis, tmRet, tmHistory, tmDisplayHistory,
                  clockVars, uiVars, wrapVars >>

\* update(), lines 115-127: animation and display timers, then return
UpdateTimers ==
  /\ tmPc = "timers"
  /\ ~rtcIrq
  /\ IF animationActive /\ animationTimer > 0
     THEN /\ animationTimer' = animationTimer - 1
          /\ animationActive' = ~(animationTimer - 1 <= 0)
     ELSE UNCHANGED << animationActive, animationTimer >>
  /\ displayTimer' = IF displayTimer > 0 THEN displayTimer - 1
                     ELSE displayTimer
  /\ tmPc' = "idle"
  /\ irqCount' = 0
  /\ UNCHANGED << secondTickFlag, tmCurrentTime, timeInitialized, rtcTime,
                  rtcSetup, rtcIrq, tmMillis, tmRet, animStartMillis,
                  animStartRtc, animDuration, tmDisplayHistory,
                  clockVars, uiVars, wrapVars >>

\* variant: the time is set and timeInitialized is left alone
setTimeFromEpoch_noFlag ==
  \E epochTime \in TmEpochs :
    LET timezoneOffset == 1
        newTime == epochTime + timezoneOffset * 3600
    IN  /\ tmPc = "idle"
        /\ ~rtcIrq
        /\ rtcTime' = newTime
        /\ UNCHANGED tmRet
        /\ UNCHANGED << secondTickFlag, animationActive, animationTimer,
                        displayTimer, tmCurrentTime, timeInitialized,
                        rtcSetup, rtcIrq, tmMillis, tmPc, tmHistory,
                        tmDisplayHistory,
                  clockVars, uiVars, wrapVars >>

setTimeFromEpoch ==
  \E epochTime \in TmEpochs :
    LET timezoneOffset == 1
        newTime == epochTime + timezoneOffset * 3600
    IN  /\ tmPc = "idle"
        /\ ~rtcIrq
        /\ rtcTime' = newTime
        /\ timeInitialized' = TRUE
        /\ UNCHANGED tmRet
        /\ UNCHANGED << secondTickFlag, animationActive, animationTimer,
                        displayTimer, tmCurrentTime, rtcSetup, rtcIrq,
                        tmMillis, tmPc, tmHistory, tmDisplayHistory,
                  clockVars, uiVars, wrapVars >>

\* startAnimation(durationMs): the effect on the fields, and on the history
StartAnimationAt(durationMs) ==
  /\ animationActive' = TRUE
  /\ animationTimer' = durationMs \div 100
  /\ animStartMillis' = tmMillis
  /\ animStartRtc' = rtcTime
  /\ animDuration' = durationMs

startAnimation ==
  \E durationMs \in AnimDurations :
    /\ tmPc = "idle"
    /\ ~rtcIrq
    /\ StartAnimationAt(durationMs)
    /\ UNCHANGED tmRet
    /\ UNCHANGED << secondTickFlag, displayTimer, tmCurrentTime,
                    timeInitialized, rtcTime, rtcSetup, rtcIrq, tmMillis,
                    tmPc, irqCount, tmDisplayHistory,
                  clockVars, uiVars, wrapVars >>

startDisplayTimer ==
  \E durationMs \in DisplayDurations :
    /\ tmPc = "idle"
    /\ ~rtcIrq
    /\ displayTimer' = durationMs \div 100
    /\ displayStartMillis' = tmMillis
    /\ displayDuration' = durationMs
    /\ UNCHANGED tmRet
    /\ UNCHANGED << secondTickFlag, animationActive, animationTimer,
                    tmCurrentTime, timeInitialized, rtcTime, rtcSetup,
                    rtcIrq, tmMillis, tmPc, tmHistory, clockVars, uiVars, wrapVars >>

TmGetCurrentTime ==
  /\ tmPc = "idle"
  /\ ~rtcIrq
  /\ tmCurrentTime' = rtcTime
  /\ UNCHANGED tmRet
  /\ UNCHANGED << secondTickFlag, animationActive, animationTimer,
                  displayTimer, timeInitialized, rtcTime, rtcSetup, rtcIrq,
                  tmMillis, tmPc, tmHistory, tmDisplayHistory,
                  clockVars, uiVars, wrapVars >>

\* the value of shouldStartHourAnimation() once it has read the RTC
shouldStartHourAnimation(t) ==
  RtcMinutes(t) = 0 /\ RtcSeconds(t) = 0 /\ ~animationActive

\* the main loop asks shouldStartHourAnimation() and, on true, calls
\* startAnimation() with its default duration
HourAnimationCheck ==
  /\ tmPc = "idle"
  /\ ~rtcIrq
  /\ tmCurrentTime' = rtcTime
  /\ IF shouldStartHourAnimation(rtcTime)
     THEN StartAnimationAt(5000)
     ELSE UNCHANGED << animationActive, animationTimer, animStartMillis,
                     animStartRtc, animDuration >>
  /\ UNCHANGED << secondTickFlag, displayTimer, timeInitialized, rtcTime,
                  rtcSetup, rtcIrq, tmMillis, tmPc, tmRet, irqCount,
                  tmDisplayHistory,
                  clockVars, uiVars, wrapVars >>

\* the main loop: update() and the hour-animation check, with the RTC set
\* from the network
TimerLoopNext ==
  \/ TmInit
  \/ TimePasses
  \/ rtcCallback
  \/ UpdateCheck
  \/ UpdateRead
  \/ UpdateClear
  \/ UpdateTimers
  \/ setTimeFromEpoch
  \/ HourAnimationCheck

\* update() and the timers started through the public operations
TimerNext ==
  \/ TmInit
  \/ TimePasses
  \/ rtcCallback
  \/ UpdateCheck
  \/ UpdateRead
  \/ UpdateClear
  \/ UpdateTimers
  \/ startAnimation
  \/ startDisplayTimer
  \/ TmGetCurrentTime

(***************************************************************************)
(* UIManager.  The object is the record uiManager; modeCalls, selectCalls  *)
(* and modifyCalls count the calls of the two press handlers and of        *)
(* modifyCurrentSetting() made by the operation that produced the record.  *)
(***************************************************************************)
\* config.h
BUTTON_DEBOUNCE_DELAY == 50
UI_MODE_CLOCK == 0
UI_MODE_SENSORS == 1
UI_MODE_NETWORK == 2
UI_MODE_SETTINGS == 3
UI_MODE_COUNT == 4
SENSOR_PAGE_TEMP_IN == 0
SENSOR_PAGE_COUNT == 4
UI_TIMEOUT == 30000
\* Arduino pin levels
LOW == 0
HIGH == 1

\* passes of loop() a run is followed for
MaxUiUpdates == 8
\* milliseconds between two passes of loop(): the debounce scale, a scale
\* on which every edge is accepted, and the timeout scale
UiDelays == {25}
UiSlowDelays == {100}
UiCoarseDelays == {10000}
\* the user lets go of the buttons for good after this many milliseconds
PressUntil == 20000

\* UIManager(): the bool members lastModeButtonState and
\* lastSelectButtonState are initialised from the int HIGH
UIManagerConstructed ==
  [ currentMode           |-> UI_MODE_CLOCK,
    currentSensorPage     |-> SENSOR_PAGE_TEMP_IN,
    lastModeButtonState   |-> (HIGH # 0),
    lastSelectButtonState |-> (HIGH # 0),
    lastModePress         |-> 0,
    lastSelectPress       |-> 0,
    lastActivity          |-> 0,
    settingsMenuItem      |-> 0,
    inSettingsEdit        |-> FALSE,
    modeCalls             |-> 0,
    selectCalls           |-> 0,
    modifyCalls           |-> 0 ]

\* init()
uiInit(u, now) == [u EXCEPT !.lastActivity = now]

getSettingsCount == 5

\* onModeButtonPressed(), as the variant that resets no sub-menu
onModeButtonPressed_noReset(u) ==
  LET c == [u EXCEPT !.modeCalls = @ + 1]
  IN  IF c.inSettingsEdit
      THEN [c EXCEPT !.inSettingsEdit = FALSE]
      ELSE [c EXCEPT !.currentMode = (@ + 1) % UI_MODE_COUNT]

onModeButtonPressed(u) ==
  LET c == [u EXCEPT !.modeCalls = @ + 1]
  IN  IF c.inSettingsEdit
      THEN [c EXCEPT !.inSettingsEdit = FALSE]
      ELSE LET n == [c EXCEPT !.currentMode = (@ + 1) % UI_MODE_COUNT]
           IN  IF n.currentMode = UI_MODE_SENSORS
               THEN [n EXCEPT !.currentSensorPage = SENSOR_PAGE_TEMP_IN]
               ELSE IF n.currentMode = UI_MODE_SETTINGS
                    THEN [n EXCEPT !.settingsMenuItem = 0]
                    ELSE n

\* modifyCurrentSetting() only prints; its calls are counted
modifyCurrentSetting(u) == [u EXCEPT !.modifyCalls = @ + 1]

\* onSelectButtonPressed(), as the variant that steps past the last item
onSelectButtonPressed_noWrap(u) ==
  LET c == [u EXCEPT !.selectCalls = @ + 1]
  IN  CASE c.currentMode = UI_MODE_SENSORS ->
             [c EXCEPT !.currentSensorPage = (@ + 1) % SENSOR_PAGE_COUNT]
        [] c.currentMode = UI_MODE_SETTINGS ->
             IF c.inSettingsEdit
             THEN modifyCurrentSetting(c)
             ELSE [c EXCEPT !.settingsMenuItem = @ + 1]
        [] OTHER -> c

onSelectButtonPressed(u) ==
  LET c == [u EXCEPT !.selectCalls = @ + 1]
  IN  CASE c.currentMode = UI_MODE_SENSORS ->
             [c EXCEPT !.currentSensorPage = (@ + 1) % SENSOR_PAGE_COUNT]
        [] c.currentMode = UI_MODE_SETTINGS ->
             IF c.inSettingsEdit
             THEN modifyCurrentSetting(c)
             ELSE IF c.settingsMenuItem < getSettingsCount - 1
                  THEN [c EXCEPT !.settingsMenuItem = @ + 1]
                  ELSE [c EXCEPT !.settingsMenuItem = 0]
        [] OTHER -> c

\* the mode-button block of handleButtons()
handleModeButton(u, now, level) ==
  LET modePressed == (level = LOW)
  IN  IF modePressed # u.lastModeButtonState
      THEN LET a == IF now - u.lastModePress > BUTTON_DEBOUNCE_DELAY
                    THEN LET h == IF modePressed
                                  THEN [onModeButtonPressed(u)
                                          EXCEPT !.lastActivity = now]
                                  ELSE u
                         IN  [h EXCEPT !.lastModePress = now]
                    ELSE u
           IN  [a EXCEPT !.lastModeButtonState = modePressed]
      ELSE u

\* the select-button block of handleButtons()
handleSelectButton(u, now, level) ==
  LET selectPressed == (level = LOW)
  IN  IF selectPressed # u.lastSelectButtonState
      THEN LET a == IF now - u.lastSelectPress > BUTTON_DEBOUNCE_DELAY
                    THEN LET h == IF selectPressed
                                  THEN [onSelectButtonPressed(u)
                                          EXCEPT !.lastActivity = now]
                                  ELSE u
                         IN  [h EXCEPT !.lastSelectPress = now]
                    ELSE u
           IN  [a EXCEPT !.lastSelectButtonState = selectPressed]
      ELSE u

handleButtons(u, now, modeLevel, selectLevel) ==
  handleSelectButton(handleModeButton(u, now, modeLevel),
                     now, selectLevel)

\* checkTimeout(), as the variant that measures from the last accepted
\* edge of the mode button
checkTimeout_sinceModeEdge(u, now) ==
  IF u.currentMode # UI_MODE_CLOCK /\ now - u.lastModePress > UI_TIMEOUT
  THEN [u EXCEPT !.currentMode = UI_MODE_CLOCK, !.inSettingsEdit = FALSE]
  ELSE u

checkTimeout(u, now) ==
  IF u.currentMode # UI_MODE_CLOCK /\ now - u.lastActivity > UI_TIMEOUT
  THEN [u EXCEPT !.currentMode = UI_MODE_CLOCK, !.inSettingsEdit = FALSE]
  ELSE u

\* update(): handleButtons() then checkTimeout()
uiUpdate(u, now, modeLevel, selectLevel) ==
  checkTimeout(handleButtons([u EXCEPT !.modeCalls = 0, !.selectCalls = 0,
                                       !.modifyCalls = 0],
                             now, modeLevel, selectLevel), now)

\* ---- actions
\* setup(): UIManager() then init(), both buttons up
UiInit ==
  /\ uiMillis = 0
  /\ uiManager = uiInit(UIManagerConstructed, uiMillis)
  /\ modePin = HIGH
  /\ selectPin = HIGH
  /\ modeDownSince = 0
  /\ selectDownSince = 0
  /\ modeHandled = 0
  /\ selectHandled = 0
  /\ lastAccepted = 0

UiParked == UiInit

\* loop(): d milliseconds after the previous pass, update() runs
UiUpdateAfter(d) ==
  /\ uiMillis + d <= MaxUiUpdates * d
  /\ LET now == uiMillis + d
         u   == uiUpdate(uiManager, now, modePin, selectPin)
     IN  /\ uiMillis' = now
         /\ uiManager' = u
         /\ modeHandled' = modeHandled + u.modeCalls
         /\ selectHandled' = selectHandled + u.selectCalls
         /\ lastAccepted' = IF u.modeCalls + u.selectCalls > 0
                            THEN now ELSE lastAccepted
  /\ UNCHANGED << modePin, selectPin, modeDownSince, selectDownSince,
                  clockVars, timerVars, wrapVars >>

UiUpdate == \E d \in UiDelays : UiUpdateAfter(d)
UiUpdateSlow == \E d \in UiSlowDelays : UiUpdateAfter(d)
UiUpdateCoarse == \E d \in UiCoarseDelays : UiUpdateAfter(d)

\* the user pushes the mode button
ModeButtonDown ==
  /\ modePin = HIGH
  /\ uiMillis <= PressUntil
  /\ modePin' = LOW
  /\ modeDownSince' = uiMillis
  /\ modeHandled' = 0
  /\ UNCHANGED << uiManager, uiMillis, selectPin, selectDownSince,
                  selectHandled, lastAccepted, clockVars, timerVars, wrapVars >>

\* the user lets go of the mode button
ModeButtonUp ==
  /\ modePin = LOW
  /\ modePin' = HIGH
  /\ UNCHANGED << uiManager, uiMillis, selectPin, uiHistory, clockVars,
                  timerVars, wrapVars >>

SelectButtonDown ==
  /\ selectPin = HIGH
  /\ uiMillis <= PressUntil
  /\ selectPin' = LOW
  /\ selectDownSince' = uiMillis
  /\ selectHandled' = 0
  /\ UNCHANGED << uiManager, uiMillis, modePin, modeDownSince, modeHandled,
                  lastAccepted, clockVars, timerVars, wrapVars >>

SelectButtonUp ==
  /\ selectPin = LOW
  /\ selectPin' = HIGH
  /\ UNCHANGED << uiManager, uiMillis, modePin, uiHistory, clockVars,
                  timerVars, wrapVars >>

(***************************************************************************)
(* The elapsed-time tests on the 32-bit millis().  An unsigned long is the *)
(* pair << high, low >> of its 16-bit halves.                              *)
(***************************************************************************)
Half == 65536

\* the unsigned long with value n
U32(n) == << n \div Half, n % Half >>

\* a + b and a - b of two unsigned long, modulo 2^32
Add32(a, b) ==
  LET low == a[2] + b[2]
  IN  << (a[1] + b[1] + (low \div Half)) % Half, low % Half >>

Sub32(a, b) ==
  LET borrow == IF a[2] < b[2] THEN 1 ELSE 0
  IN  << (a[1] - b[1] - borrow) % Half, (a[2] - b[2]) % Half >>

\* a < b of two unsigned long
Less32(a, b) == a[1] < b[1] \/ (a[1] = b[1] /\ a[2] < b[2])

\* readings of millis() stored in lastTimeUpdate, animationStart or
\* lastActivity: after boot, mid-range, and shortly before the wrap
StoredReadings ==
  { U32(0), U32(700), << 32768, 0 >>, << 65535, 0 >>, << 65535, 35535 >>,
    << 65535, 60536 >>, << 65535, 64536 >>, << 65535, 65535 >> }

\* milliseconds that went by since: around each threshold, around the
\* halves, and up to 2^32 - 1
Gaps ==
  { U32(0), U32(1), U32(999), U32(1000), U32(1001), U32(4999), U32(5000),
    U32(5001), U32(29999), U32(30000), U32(30001), U32(65535), U32(65536),
    << 32767, 65535 >>, << 32768, 0 >>, << 65535, 65535 >> }

\* ClockManager::update(): currentMillis - lastTimeUpdate >= 1000, as the
\* variant that compares the reading with lastTimeUpdate + 1000
secondElapsed_absolute(now, lastTimeUpdate32) ==
  ~Less32(now, Add32(lastTimeUpdate32, U32(1000)))

\* ClockManager::update(): currentMillis - lastTimeUpdate >= 1000
secondElapsed(now, lastTimeUpdate32) ==
  ~Less32(Sub32(now, lastTimeUpdate32), U32(1000))

\* ClockManager::updateHourAnimation(): millis() - animationStart < 5000
animationElapsedBelow(now, animationStart32) ==
  Less32(Sub32(now, animationStart32), U32(5000))

\* UIManager::checkTimeout(): millis() - lastActivity > UI_TIMEOUT
inactivityExceeded(now, lastActivity32) ==
  Less32(U32(UI_TIMEOUT), Sub32(now, lastActivity32))

\* a timestamp was stored, gap milliseconds went by, millis() is read
WrapInit ==
  /\ storedMillis \in StoredReadings
  /\ gap \in Gaps
  /\ currentMillis = Add32(storedMillis, gap)
  /\ tickDue = FALSE
  /\ animationRunning = FALSE
  /\ uiTimedOut = FALSE
  /\ tested = {}

WrapParked ==
  /\ storedMillis = U32(0)
  /\ gap = U32(0)
  /\ currentMillis = U32(0)
  /\ tickDue = FALSE
  /\ animationRunning = FALSE
  /\ uiTimedOut = FALSE
  /\ tested = {}

TickTest ==
  /\ "tick" \notin tested
  /\ tickDue' = secondElapsed(currentMillis, storedMillis)
  /\ tested' = tested \cup {"tick"}
  /\ UNCHANGED << storedMillis, currentMillis, gap, animationRunning,
                  uiTimedOut, clockVars, timerVars, uiVars >>

AnimationTest ==
  /\ "animation" \notin tested
  /\ animationRunning' = animationElapsedBelow(currentMillis, storedMillis)
  /\ tested' = tested \cup {"animation"}
  /\ UNCHANGED << storedMillis, currentMillis, gap, tickDue, uiTimedOut,
                  clockVars, timerVars, uiVars >>

TimeoutTest ==
  /\ "timeout" \notin tested
  /\ uiTimedOut' = inactivityExceeded(currentMillis, storedMillis)
  /\ tested' = tested \cup {"timeout"}
  /\ UNCHANGED << storedMillis, currentMillis, gap, tickDue,
                  animationRunning, clockVars, timerVars, uiVars >>

WrapNext ==
  \/ TickTest
  \/ AnimationTest
  \/ TimeoutTest

(***************************************************************************)
(* Specifications.  The two classes share no state; each specification     *)
(* runs one of them and leaves the other as constructed.                   *)
(***************************************************************************)
ClockParked == ClockInit /\ epochAtBoot = DayBase + 68398
TimerParked == TimerInit /\ tmMillis = 0

InitClock == ClockInit /\ TimerParked /\ UiParked /\ WrapParked

SpecClock == InitClock /\ [][ClockNext]_vars

\* The time renderer on every time of day.  The clock has drawn the time
\* (h, m, s), then a frame of the hour animation, and a sync has set the
\* time to (h + 5, m + 7, s + 11).
RenderInit ==
  \E h \in 0..23, m \in 0..59, s \in 0..59 :
    LET shown == updateLastDisplayedTime(updateLEDDisplay(
                   [Constructed(0) EXCEPT !.currentTime.hours = h,
                                          !.currentTime.minutes = m,
                                          !.currentTime.seconds = s]))
        frame == updateHourAnimation(triggerHourAnimation(shown, 0),
                                     100 * s)
        synced == [frame EXCEPT !.currentTime.hours = (h + 5) % 24,
                                !.currentTime.minutes = (m + 7) % 60,
                                !.currentTime.seconds = (s + 11) % 60,
                                !.currentTime.isValid = TRUE,
                                !.timeValidated = TRUE]
    IN  /\ millis = 100 * s
        /\ IsState(synced)
        /\ ntpTimeSet = TRUE
        /\ ntpEpoch = DayBase
        /\ ntpLastUpdate = millis
        /\ epochAtBoot = DayBase
        /\ lastOp = "syncWithNTP"
        /\ ret = "true"
        /\ lastAnswer = 0
        /\ calls = MaxCalls - 1
        /\ wifiStatus = "WL_CONNECTED"
        /\ polls = 1
        /\ epochArg = DayBase

RenderNext ==
  \/ ForceDisplayUpdate

InitRender == RenderInit /\ TimerParked /\ UiParked /\ WrapParked

SpecRender == InitRender /\ [][RenderNext]_vars

\* The epoch conversion alone.  After init(), updateTimeFromEpoch() is
\* called with the epoch epochArg.
EpochInit ==
  /\ millis = 0
  /\ IsState(Constructed(0))
  /\ ntpTimeSet = FALSE
  /\ ntpEpoch = 0
  /\ ntpLastUpdate = 0
  /\ epochAtBoot = DayBase
  /\ lastOp = "init"
  /\ ret = "true"
  /\ lastAnswer = NoAnswer
  /\ calls = 0
  /\ wifiStatus = "WL_IDLE_STATUS"
  /\ polls = 0
  /\ epochArg \in EpochSamples

UpdateTimeFromEpoch ==
  /\ lastOp = "init"
  /\ Commit(updateTimeFromEpoch(Self, epochArg))
  /\ lastOp' = "updateTimeFromEpoch"
  /\ ret' = "void"
  /\ UNCHANGED << ntpTimeSet, ntpEpoch, ntpLastUpdate, millis, epochAtBoot,
                  lastAnswer, calls, wifiStatus, polls, epochArg,
                  timerVars, uiVars, wrapVars >>

EpochNext ==
  \/ UpdateTimeFromEpoch

InitEpoch == EpochInit /\ TimerParked /\ UiParked /\ WrapParked

SpecEpoch == InitEpoch /\ [][EpochNext]_vars

\* The hour animation under a main loop out of step with the seconds
AnimationNext ==
  \/ UpdateFine
  \/ TriggerHourAnimation

InitAnimation == ClockParked /\ TimerParked /\ UiParked /\ WrapParked

SpecAnimation == InitAnimation /\ [][AnimationNext]_vars

\* The animation frames alone.  The clock shows a time, the animation was
\* triggered at millis() = 0 and updateHourAnimation() is called at millis.
ChaseInit ==
  \E e \in ChaseElapsed :
    LET shown == updateLastDisplayedTime(updateLEDDisplay(
                   [Constructed(0) EXCEPT
                      !.currentTime.hours = (e \div 50) % 24,
                      !.currentTime.minutes = (e \div 100) % 60]))
    IN  /\ millis = e
        /\ IsState(triggerHourAnimation(shown, 0))
        /\ ntpTimeSet = FALSE
        /\ ntpEpoch = 0
        /\ ntpLastUpdate = 0
        /\ epochAtBoot = DayBase
        /\ lastOp = "triggerHourAnimation"
        /\ ret = "void"
        /\ lastAnswer = NoAnswer
        /\ calls = 1
        /\ wifiStatus = "WL_IDLE_STATUS"
        /\ polls = 0
        /\ epochArg = NoEpoch

UpdateHourAnimation ==
  /\ lastOp = "triggerHourAnimation"
  /\ Commit(updateHourAnimation(Self, millis))
  /\ lastOp' = "updateHourAnimation"
  /\ ret' = "void"
  /\ UNCHANGED << ntpTimeSet, ntpEpoch, ntpLastUpdate, millis, epochAtBoot,
                  lastAnswer, calls, wifiStatus, polls, epochArg,
                  timerVars, uiVars, wrapVars >>

ChaseNext ==
  \/ UpdateHourAnimation

InitChase == ChaseInit /\ TimerParked /\ UiParked /\ WrapParked

SpecChase == InitChase /\ [][ChaseNext]_vars

\* The software tick alone, on every second of the day.  The clock shows
\* the time (h, m, s), no animation runs, and updateInternalTime() is
\* called at millis.
SecondInit ==
  \E h \in 0..23, m \in 0..59, s \in 0..59 :
    /\ millis = 1000
    /\ IsState(updateLastDisplayedTime(updateLEDDisplay(
                 [Constructed(0) EXCEPT !.currentTime.hours = h,
                                        !.currentTime.minutes = m,
                                        !.currentTime.seconds = s])))
    /\ ntpTimeSet = FALSE
    /\ ntpEpoch = 0
    /\ ntpLastUpdate = 0
    /\ epochAtBoot = DayBase
    /\ lastOp = "init"
    /\ ret = "true"
    /\ lastAnswer = NoAnswer
    /\ calls = 0
    /\ wifiStatus = "WL_IDLE_STATUS"
    /\ polls = 0
    /\ epochArg = NoEpoch

UpdateInternalTime ==
  /\ lastOp = "init"
  /\ Commit(updateInternalTime(Self, millis))
  /\ lastOp' = "updateInternalTime"
  /\ ret' = "void"
  /\ UNCHANGED << ntpTimeSet, ntpEpoch, ntpLastUpdate, millis, epochAtBoot,
                  lastAnswer, calls, wifiStatus, polls, epochArg,
                  timerVars, uiVars, wrapVars >>

SecondNext ==
  \/ UpdateInternalTime

InitSecond == SecondInit /\ TimerParked /\ UiParked /\ WrapParked

SpecSecond == InitSecond /\ [][SecondNext]_vars

InitTimer == TimerInit /\ ClockParked /\ UiParked /\ WrapParked

SpecTimerLoop == InitTimer /\ [][TimerLoopNext]_vars

SpecTimer == InitTimer /\ [][TimerNext]_vars

\* Both classes and their time sources: every operation of ClockManager,
\* and TimerManager's init() and setTimeFromEpoch() with the RTC at rest.
\* The device boots at one time of day.
SyncNext ==
  \/ Update
  \/ ForceDisplayUpdate
  \/ TriggerHourAnimation
  \/ SyncNotConnected
  \/ SyncConnected
  \/ TmInit
  \/ setTimeFromEpoch

InitSync == ClockParked /\ TimerInit /\ UiParked /\ WrapParked

\* ClockManager with an NTP server whose clock was never set
InsaneInit ==
  /\ millis \in BootMillis
  /\ IsState(Constructed(millis))
  /\ ntpTimeSet = FALSE
  /\ ntpEpoch = 0
  /\ ntpLastUpdate = 0
  /\ epochAtBoot \in InsaneBootEpochs
  /\ lastOp = "init"
  /\ ret = "true"
  /\ lastAnswer = NoAnswer
  /\ calls = 0
  /\ wifiStatus = "WL_IDLE_STATUS"
  /\ polls = 0
  /\ epochArg = NoEpoch

InitInsane == InsaneInit /\ TimerParked /\ UiParked /\ WrapParked

SpecInsane == InitInsane /\ [][ClockNext]_vars

SpecSync == InitSync /\ [][SyncNext]_vars

\* The UIManager from boot on the debounce scale, both buttons in use.
UiNext ==
  \/ UiUpdate
  \/ ModeButtonDown
  \/ ModeButtonUp
  \/ SelectButtonDown
  \/ SelectButtonUp

InitUi == UiInit /\ ClockParked /\ TimerParked /\ WrapParked

SpecUi == InitUi /\ [][UiNext]_vars

\* The UIManager from boot on the timeout scale; loop() keeps running.
UiTimeoutNext ==
  \/ UiUpdateCoarse
  \/ ModeButtonDown
  \/ ModeButtonUp
  \/ SelectButtonDown
  \/ SelectButtonUp

SpecUiTimeout ==
  InitUi /\ [][UiTimeoutNext]_vars /\ WF_vars(UiUpdateCoarse)

\* The mode button on a UIManager that has been in use: any mode, sensor
\* page and menu item, both buttons up and seen up; every edge is accepted.
UiModeInit ==
  /\ uiMillis = 0
  /\ \E m \in 0..(UI_MODE_COUNT - 1), p \in 0..(SENSOR_PAGE_COUNT - 1),
        i \in 0..(getSettingsCount - 1) :
       uiManager = [uiInit(UIManagerConstructed, uiMillis)
                      EXCEPT !.currentMode = m,
                             !.currentSensorPage = p,
                             !.settingsMenuItem = i,
                             !.lastModeButtonState = FALSE,
                             !.lastSelectButtonState = FALSE]
  /\ modePin = HIGH
  /\ selectPin = HIGH
  /\ modeDownSince = 0
  /\ selectDownSince = 0
  /\ modeHandled = 0
  /\ selectHandled = 0
  /\ lastAccepted = 0

UiModeNext ==
  \/ UiUpdateSlow
  \/ ModeButtonDown
  \/ ModeButtonUp

InitUiMode == UiModeInit /\ ClockParked /\ TimerParked /\ WrapParked

SpecUiMode == InitUiMode /\ [][UiModeNext]_vars

\* Both buttons and the timeout on a UIManager that has been in use.
SpecUiSettings == InitUiMode /\ [][UiTimeoutNext]_vars

\* The three elapsed-time tests on pairs of millis() readings.
InitWrap == WrapInit /\ ClockParked /\ TimerParked /\ UiParked

SpecWrap == InitWrap /\ [][WrapNext]_vars

(***************************************************************************)
(* Properties                                                              *)
(***************************************************************************)

\* C1: when the network time source is disconnected or does not answer
\* within the wait, syncWithNTP() returns false and getCurrentTime() and
\* isTimeValid() are as before the call, also after an earlier successful
\* sync.
C1_SyncFailurePreservesState ==
  [][ (lastOp' = "syncWithNTP" /\ lastAnswer' = NoAnswer) =>
        /\ ret' = "false"
        /\ currentTime' = currentTime
        /\ (timeValidated' /\ currentTime'.isValid) = isTimeValid ]_vars

\* C2: a tick that arrives between RTC.getTime(currentTime) and the
\* clearing of secondTickFlag is not lost: the flag is still set once
\* update() has cleared it, so that the next pass refreshes currentTime.
C2_TickDuringReadNotLost ==
  [][ (tmPc = "clear" /\ tmPc' = "timers" /\ tmCurrentTime # rtcTime) =>
        secondTickFlag' ]_vars

\* C3: a pending tick, whatever the number of interrupts that raised it,
\* makes update() read the RTC once and then clear the flag, leaving
\* currentTime at the RTC time of that read; an update() with no pending
\* tick, and every other step inside update(), leaves currentTime alone.
C3_TickConsumedOnce ==
  [][ /\ (tmPc = "idle" /\ tmPc' # "idle") =>
           /\ tmPc' = (IF secondTickFlag THEN "read" ELSE "timers")
           /\ tmCurrentTime' = tmCurrentTime
      /\ (tmPc = "read" /\ tmPc' # "read") =>
           /\ tmPc' = "clear"
           /\ tmCurrentTime' = rtcTime
      /\ (tmPc = "clear" /\ tmPc' # "clear") =>
           /\ tmPc' = "timers"
           /\ ~secondTickFlag'
           /\ tmCurrentTime' = tmCurrentTime
      /\ (tmPc = "timers" /\ tmPc' # "timers") =>
           /\ tmPc' = "idle"
           /\ tmCurrentTime' = tmCurrentTime
      /\ (tmPc \in {"read", "clear", "timers"} /\ tmPc' = tmPc) =>
           tmCurrentTime' = tmCurrentTime ]_vars

\* two interrupts since the previous update() returned, consumed by one pass
C3_Witness ==
  /\ tmPc = "timers"
  /\ irqCount >= 2
  /\ ~secondTickFlag
  /\ tmCurrentTime = rtcTime

\* C4: a caller that starts the animation whenever
\* shouldStartHourAnimation() returns true starts it once per top-of-hour
\* second: no start happens in an RTC second in which one happened before.
C4_AnimationLatching ==
  [][ (~animationActive /\ animationActive') => animStartRtc # rtcTime ]_vars

\* C5: whenever update() returns, an animation started with
\* startAnimation(5000) at t0 is active if and only if millis() < t0 + 5000.
C5_AnimationBoundedDuration ==
  [][ (tmPc = "timers" /\ tmPc' = "idle" /\ animDuration = 5000) =>
        (animationActive' <=> tmMillis' - animStartMillis < 5000) ]_vars

\* the frame of the hour animation, elapsed ms after its start
ChaseFrame(elapsed) ==
  [i \in 0..(LED_RING_HOURS_COUNT - 1) |->
     IF \E k \in 0..2 : i = ((elapsed \div 100) + k) % LED_RING_HOURS_COUNT
     THEN White ELSE Black]

\* C6: after an update() pass that leaves the hour animation running, the
\* hour ring shows the animation frame: the time display has not cleared or
\* overwritten it.
C6_NoTimeDisplayDuringAnimation ==
  (lastOp = "update" /\ inHourAnimation) =>
     hoursLEDs = ChaseFrame(millis - animationStart)

\* the frame f is the time display of the time t
ShowsTime(f, t) ==
  /\ f.hours = [i \in 0..(LED_RING_HOURS_COUNT - 1) |->
                  IF i = t.hours % 12 THEN ColorOf(COLOR_HOURS) ELSE Black]
  /\ f.minutes = [i \in 0..(LED_RING_MINUTES_COUNT - 1) |->
                    IF i = t.minutes /\ i = t.seconds
                    THEN ColorOf(COLOR_OVERLAP)
                    ELSE IF i = t.seconds THEN ColorOf(COLOR_SECONDS)
                    ELSE IF i = t.minutes THEN ColorOf(COLOR_MINUTES)
                    ELSE Black]

\* C7: an update() pass draws the time display and transfers it with
\* FastLED.show() if and only if the hour, minute or second of the pass
\* differs from the cached values; after the pass the cache holds the time,
\* so an unchanged time is not drawn again.
C7_RedrawIffChanged ==
  [][ lastOp' = "update" =>
        /\ (flShowCalls' >= 1 /\ ShowsTime(flFrame', currentTime')) <=>
             \/ currentTime'.hours # lastHour
             \/ currentTime'.minutes # lastMinute
             \/ currentTime'.seconds # lastSecond
        /\ lastHour' = currentTime'.hours
        /\ lastMinute' = currentTime'.minutes
        /\ lastSecond' = currentTime'.seconds ]_vars

\* a pass after a software tick has drawn the new second, once
C7_Witness ==
  /\ lastOp = "update"
  /\ ~inHourAnimation
  /\ flShowCalls = 1
  /\ currentTime.seconds = 2
  /\ lastSecond = 2
  /\ ShowsTime(flFrame, currentTime)

\* pixels of the minute ring that show the colour c
MinutePixels(c) ==
  { i \in 0..(LED_RING_MINUTES_COUNT - 1) : minutesLEDs[i] = ColorOf(c) }

\* C8: after updateLEDDisplay(), when minute = second one pixel of the
\* minute ring is lit and it shows COLOR_OVERLAP, neither COLOR_MINUTES nor
\* COLOR_SECONDS; when minute # second no pixel shows COLOR_OVERLAP.
C8_OverlapColour ==
  lastOp = "forceDisplayUpdate" =>
    IF currentTime.minutes = currentTime.seconds
    THEN /\ MinutePixels(COLOR_OVERLAP) = {currentTime.minutes}
         /\ MinutePixels(COLOR_MINUTES) = {}
         /\ MinutePixels(COLOR_SECONDS) = {}
         /\ \A i \in 0..(LED_RING_MINUTES_COUNT - 1) :
              i # currentTime.minutes => minutesLEDs[i] = Black
    ELSE MinutePixels(COLOR_OVERLAP) = {}

C8_Witness ==
  /\ lastOp = "forceDisplayUpdate"
  /\ currentTime.minutes = 34
  /\ currentTime.seconds = 34
  /\ minutesLEDs[34] = ColorOf(COLOR_OVERLAP)

\* C9: after updateLEDDisplay() the hour ring has one lit pixel, at index
\* hour mod 12, the lit pixels of the minute ring are those at minute and at
\* second, and every other pixel is black, whatever was shown before.
C9_RenderingRule ==
  lastOp = "forceDisplayUpdate" =>
    /\ currentTime.hours \in 0..23
    /\ { i \in 0..(LED_RING_HOURS_COUNT - 1) : hoursLEDs[i] # Black } =
         {currentTime.hours % 12}
    /\ { i \in 0..(LED_RING_MINUTES_COUNT - 1) : minutesLEDs[i] # Black } =
         {currentTime.minutes, currentTime.seconds}

\* 23:59:58 drawn over the display of 18:52:47 and an animation frame
C9_Witness ==
  /\ lastOp = "forceDisplayUpdate"
  /\ currentTime.hours = 23
  /\ currentTime.minutes = 59
  /\ currentTime.seconds = 58
  /\ hoursLEDs[11] # Black
  /\ flFrame.hours = hoursLEDs

\* C10: after every update() pass nightModeActive is true if and only if
\* hours >= NIGHT_MODE_START or hours < NIGHT_MODE_END.
C10_NightModePredicate ==
  lastOp = "update" =>
    (nightModeActive <=> (\/ currentTime.hours >= NIGHT_MODE_START
                          \/ currentTime.hours < NIGHT_MODE_END))

\* the pass at 07:00:00 that ends the night
C10_Witness ==
  /\ lastOp = "update"
  /\ timeValidated
  /\ currentTime.hours = 7
  /\ ~nightModeActive
  /\ flSetBrightnessCalls = 1

\* C11: an update() pass calls FastLED.setBrightness() once if
\* nightModeActive changes value in the pass and not at all otherwise, and
\* the value written is the brightness of the new mode; a pass that takes
\* the hour from 21 to 22 writes once, and a pass that finds the hour at 22
\* after a pass that left it at 22 writes nothing.
C11_BrightnessHysteresis ==
  [][ lastOp' = "update" =>
        /\ flSetBrightnessCalls' =
             (IF nightModeActive' # nightModeActive THEN 1 ELSE 0)
        /\ nightModeActive' # nightModeActive =>
             flBrightness' = (IF nightModeActive' THEN NIGHT_BRIGHTNESS
                              ELSE 255)
        /\ nightModeActive' = nightModeActive =>
             flBrightness' = flBrightness
        /\ (lastOp = "update" /\ currentTime.hours = 21
              /\ currentTime'.hours = 22) => flSetBrightnessCalls' = 1
        /\ (lastOp = "update" /\ currentTime.hours = 22
              /\ currentTime'.hours = 22) => flSetBrightnessCalls' = 0 ]_vars

\* the pass at 22:00:01, after the pass at 22:00:00 dimmed the rings: the
\* night mode is re-evaluated and nothing is written
C11_Witness ==
  /\ lastOp = "update"
  /\ currentTime.hours = 22
  /\ currentTime.minutes = 0
  /\ currentTime.seconds = 1
  /\ nightModeActive
  /\ flBrightness = NIGHT_BRIGHTNESS
  /\ flSetBrightnessCalls = 0

\* the Gregorian calendar date of the day z days after 1970-01-01
CivilFromDays(z) ==
  LET z1 == z + 719468
      era == z1 \div 146097
      doe == z1 % 146097
      yoe == (doe - doe \div 1460 + doe \div 36524 - doe \div 146096) \div 365
      doy == doe - (365 * yoe + yoe \div 4 - yoe \div 100)
      mp == (5 * doy + 2) \div 153
      m == IF mp < 10 THEN mp + 3 ELSE mp - 9
  IN  [ year |-> yoe + era * 400 + (IF m <= 2 THEN 1 ELSE 0),
        month |-> m,
        day |-> doy - ((153 * mp + 2) \div 5) + 1 ]

\* the instant the conversion shows for the epoch e: e plus the two offsets
LocalEpoch(e) == e + TIMEZONE_OFFSET * 3600 + DST_OFFSET * 3600

\* C12: after updateTimeFromEpoch(e), year, month and day are the Gregorian
\* date of the instant e plus the offsets the conversion applies; the epoch
\* of 2024-02-29 gives 29.2.2024 and the epoch 86400 s later gives 1.3.
C12_EpochToCalendar ==
  lastOp = "updateTimeFromEpoch" =>
    LET date == CivilFromDays(LocalEpoch(epochArg) \div 86400)
    IN  /\ currentTime.year = date.year
        /\ currentTime.month = date.month
        /\ currentTime.day = date.day
        /\ epochArg = 19782 * 86400 =>
             /\ currentTime.day = 29
             /\ currentTime.month = 2
             /\ currentTime.year = 2024
        /\ epochArg = 19783 * 86400 =>
             /\ currentTime.day = 1
             /\ currentTime.month = 3

\* C13: in every state reachable by software ticks and NTP syncs the fields
\* of currentTime are in their documented ranges: hours 0..23, minutes and
\* seconds 0..59, day 1..31, month 1..12, weekday 1..7.
C13_CalendarFieldsConsistent ==
  /\ currentTime.hours \in 0..23
  /\ currentTime.minutes \in 0..59
  /\ currentTime.seconds \in 0..59
  /\ currentTime.day \in 1..31
  /\ currentTime.month \in 1..12
  /\ currentTime.weekday \in 1..7

\* number of days of the month m of the year y
DaysInMonth(y, m) ==
  IF m = 2 THEN (IF isLeapYear(y) THEN 29 ELSE 28)
  ELSE IF m \in {4, 6, 9, 11} THEN 30 ELSE 31

\* the calendar fields of t are a date of the Gregorian calendar
IsCalendarDate(t) ==
  /\ t.month \in 1..12
  /\ t.day \in 1..DaysInMonth(t.year, t.month)

\* days from 1970-01-01 to the Gregorian date y-m-d
DaysFromCivil(y, m, d) ==
  LET y1 == IF m <= 2 THEN y - 1 ELSE y
      era == y1 \div 400
      yoe == y1 - era * 400
      doy == ((153 * (IF m > 2 THEN m - 3 ELSE m + 9) + 2) \div 5) + d - 1
      doe == yoe * 365 + yoe \div 4 - yoe \div 100 + doy
  IN  era * 146097 + doe - 719468

\* the epoch of the calendar fields of t
EpochOfFields(t) ==
  DaysFromCivil(t.year, t.month, t.day) * 86400
    + t.hours * 3600 + t.minutes * 60 + t.seconds

C15_OffsetAppliedOnce ==
  (lastOp = "syncWithNTP" /\ lastAnswer # NoAnswer) =>
    LET local == ntpEpoch + TIMEZONE_OFFSET * 3600
    IN  /\ ret = "true"
        /\ isTimeValid
        /\ getCurrentTime.hours = (local \div 3600) % 24
        /\ getCurrentTime.minutes = (local \div 60) % 60
        /\ getCurrentTime.seconds = local % 60

\* C16: isTimeValid() is false after construction and init() and, from
\* then on, true exactly if a sync has succeeded: a step makes it true if
\* and only if it is a syncWithNTP() that returns true (ClockManager) or a
\* setTimeFromEpoch() (TimerManager), and no step makes it false again.
C16_ValidityReflectsSyncHistory ==
  /\ ~isTimeValid
  /\ ~timeInitialized
  /\ [][ /\ isTimeValid' <=>
              \/ isTimeValid
              \/ (calls' # calls /\ lastOp' = "syncWithNTP" /\ ret' = "true")
         /\ timeInitialized' <=> (timeInitialized \/ setTimeFromEpoch) ]_vars

\* both classes hold a valid time, and a later syncWithNTP() without WiFi
\* has failed
C16_Witness ==
  /\ isTimeValid
  /\ timeInitialized
  /\ tmRet = "true"
  /\ lastOp = "syncWithNTP"
  /\ ret = "false"

\* an epoch the network may plausibly report: not before the date the
\* firmware itself assumes at start-up
SaneEpoch(e) == e >= InitialEpoch

\* C17: a syncWithNTP() in which the server answers with an epoch outside
\* the sane range returns false and leaves getCurrentTime() and
\* isTimeValid() as they were.
C17_InsaneEpochDiscarded ==
  [][ ( /\ calls' # calls
        /\ lastOp' = "syncWithNTP"
        /\ lastAnswer' # NoAnswer
        /\ ~SaneEpoch(ntpEpoch') ) =>
        /\ ret' = "false"
        /\ currentTime' = currentTime
        /\ isTimeValid' = isTimeValid ]_vars

\* the time of day of t in seconds
SecondOfDay(t) == t.hours * 3600 + t.minutes * 60 + t.seconds

\* C18: an update() pass that follows another pass, or a syncWithNTP()
\* that failed, advances the time by every whole second that went by since
\* the last software tick, however long the gap.
C18_StalledSecondsNotLost ==
  [][ ( /\ lastOp' = "update"
        /\ \/ lastOp = "update"
           \/ (lastOp = "syncWithNTP" /\ ret = "false") ) =>
        SecondOfDay(getCurrentTime') =
          (SecondOfDay(getCurrentTime)
             + (MillisDiff(millis', lastTimeUpdate) \div 1000)) % 86400 ]_vars

C20_AnimationNotRestarted ==
  [][ /\ (animationActive /\ tmPc = "idle" /\ tmPc' = "idle") =>
           /\ animationTimer' = animationTimer
           /\ animStartMillis' = animStartMillis
           /\ animationActive'
      /\ (inHourAnimation /\ calls' # calls
            /\ lastOp' = "triggerHourAnimation") =>
           /\ animationStart' = animationStart
           /\ inHourAnimation' ]_vars

\* C21: the update() pass in which inHourAnimation becomes false redraws
\* the time display, also when hour, minute and second equal the cached
\* values: after the pass the rings show the time and no pixel of the hour
\* ring shows the colour of the animation.
C21_RedrawAtAnimationEnd ==
  [][ (lastOp' = "update" /\ inHourAnimation /\ ~inHourAnimation') =>
        /\ flShowCalls' >= 1
        /\ ShowsTime(flFrame', currentTime')
        /\ \A i \in 0..(LED_RING_HOURS_COUNT - 1) :
             hoursLEDs'[i] # White ]_vars

\* C22: an operation that redraws the time display leaves lastHour,
\* lastMinute and lastSecond equal to the hour, minute and second it
\* rendered, and an operation that does not redraw leaves the three alone.
C22_CacheTracksDisplay ==
  [][ IF flShowCalls' >= 1 /\ ShowsTime(flFrame', currentTime')
      THEN /\ lastHour' = currentTime'.hours
           /\ lastMinute' = currentTime'.minutes
           /\ lastSecond' = currentTime'.seconds
      ELSE /\ lastHour' = lastHour
           /\ lastMinute' = lastMinute
           /\ lastSecond' = lastSecond ]_vars

\* C23: every execution of rtcCallback() leaves secondTickFlag true and
\* animationActive, animationTimer, displayTimer, currentTime and
\* timeInitialized as they were; it takes no time and does not move the
\* main context.
C23_CallbackOnlySetsFlag ==
  [][ (rtcIrq /\ ~rtcIrq') =>
        /\ secondTickFlag'
        /\ animationActive' = animationActive
        /\ animationTimer' = animationTimer
        /\ displayTimer' = displayTimer
        /\ tmCurrentTime' = tmCurrentTime
        /\ timeInitialized' = timeInitialized
        /\ tmMillis' = tmMillis
        /\ tmPc' = tmPc ]_vars

\* the handler has run inside update(), between the read of the RTC and the
\* clearing of the flag, while both timers were counting
C23_Witness ==
  /\ tmPc = "clear"
  /\ irqCount >= 2
  /\ secondTickFlag
  /\ ~rtcIrq
  /\ animationActive
  /\ animationTimer > 0
  /\ displayTimer > 0

\* C24: init() returns false if RTC.begin() fails and if
\* RTC.setPeriodicCallback() fails, both times without setting the RTC
\* time; it returns true only if both succeeded; timeInitialized is false
\* after init() in every case.
C24_InitFailureReported ==
  [][ (tmPc = "constructed" /\ tmPc' # "constructed") =>
        /\ ~rtcBegun' => (tmRet' = "false" /\ rtcTime' = rtcTime)
        /\ (rtcBegun' /\ ~rtcArmed') =>
             (tmRet' = "false" /\ rtcTime' = rtcTime)
        /\ tmRet' = "true" <=> (rtcBegun' /\ rtcArmed')
        /\ tmRet' = "false" <=> tmPc' = "failed"
        /\ ~timeInitialized' ]_vars

\* RTC.begin() succeeded, RTC.setPeriodicCallback() failed
C24_Witness ==
  /\ tmPc = "failed"
  /\ tmRet = "false"
  /\ rtcBegun
  /\ ~rtcArmed
  /\ rtcTime = NotStarted
  /\ ~timeInitialized

\* C25: a frame drawn by updateHourAnimation() less than 5000 ms after the
\* start of the animation has 3 lit pixels on the hour ring, white, at
\* (pos + i) mod 12 for i = 0, 1, 2 with pos = (elapsed / 100) mod 12; the
\* other pixels of the hour ring are black, and the frame is shown.
C25_ChasePattern ==
  (lastOp = "updateHourAnimation" /\ millis - animationStart < 5000) =>
    LET pos == ((millis - animationStart) \div 100) % 12
        lit == { i \in 0..11 : hoursLEDs[i] # Black }
    IN  /\ Cardinality(lit) = 3
        /\ lit = { (pos + 0) % 12, (pos + 1) % 12, (pos + 2) % 12 }
        /\ \A i \in lit : hoursLEDs[i] = White
        /\ flShowCalls = 1
        /\ flFrame.hours = hoursLEDs
        /\ inHourAnimation

\* the frame at 1150 ms wraps around the end of the ring: 11, 0, 1
C25_Witness ==
  /\ lastOp = "updateHourAnimation"
  /\ millis = 1150
  /\ hoursLEDs[11] = White
  /\ hoursLEDs[0] = White
  /\ hoursLEDs[1] = White
  /\ hoursLEDs[10] = Black
  /\ hoursLEDs[2] = Black

\* C28: debouncing drops no valid press and duplicates none: once a button
\* has been down for more than BUTTON_DEBOUNCE_DELAY and update() has run
\* that late into the press, its press handler has been called exactly once
\* for this press; no press is ever handled twice.
C28_PressHandledOnce ==
  /\ (modePin = LOW /\ uiMillis - modeDownSince > BUTTON_DEBOUNCE_DELAY)
       => modeHandled = 1
  /\ (selectPin = LOW /\ uiMillis - selectDownSince > BUTTON_DEBOUNCE_DELAY)
       => selectHandled = 1
  /\ modeHandled <= 1
  /\ selectHandled <= 1

\* C26: UI inactivity timeout: after every update(), a mode other than
\* Clock means that no more than UI_TIMEOUT has passed since the last
\* update() that accepted a button press, and once that much has passed
\* the mode is Clock with inSettingsEdit cleared; with no further presses
\* the UI eventually is in Clock mode and stays there.
C26_TimeoutReturnsToClock ==
  /\ [](uiManager.currentMode # UI_MODE_CLOCK
          => uiMillis - lastAccepted <= UI_TIMEOUT)
  /\ [](uiMillis - lastAccepted > UI_TIMEOUT
          => (uiManager.currentMode = UI_MODE_CLOCK
              /\ ~uiManager.inSettingsEdit))
  /\ <>[](uiManager.currentMode = UI_MODE_CLOCK)

\* Sensors mode entered at 20000 ms has timed out at 60000 ms.
C26_Witness ==
  /\ uiMillis = 60000
  /\ lastAccepted = 20000
  /\ uiManager.lastActivity = 20000
  /\ uiManager.currentMode = UI_MODE_CLOCK
  /\ uiManager.lastModePress = 30000
  /\ modeHandled = 1

\* C27: mode cycling: an update() that accepts a press of the mode button
\* outside settings edit moves the mode one step in the order
\* Clock -> Sensors -> Network -> Settings -> Clock; arriving in Sensors
\* resets the sensor page to SENSOR_PAGE_TEMP_IN, arriving in Settings
\* resets the menu item to 0.
NextMode(m) ==
  CASE m = UI_MODE_CLOCK    -> UI_MODE_SENSORS
    [] m = UI_MODE_SENSORS  -> UI_MODE_NETWORK
    [] m = UI_MODE_NETWORK  -> UI_MODE_SETTINGS
    [] m = UI_MODE_SETTINGS -> UI_MODE_CLOCK

C27_ModeCycle ==
  [][ (modeHandled' = modeHandled + 1 /\ ~uiManager.inSettingsEdit) =>
        /\ uiManager'.currentMode = NextMode(uiManager.currentMode)
        /\ NextMode(NextMode(NextMode(NextMode(uiManager.currentMode))))
             = uiManager.currentMode
        /\ uiManager'.currentMode = UI_MODE_SENSORS
             => uiManager'.currentSensorPage = SENSOR_PAGE_TEMP_IN
        /\ uiManager'.currentMode = UI_MODE_SETTINGS
             => uiManager'.settingsMenuItem = 0 ]_vars

\* the fourth accepted press of a run, arriving in Sensors
C27_Witness ==
  /\ uiMillis = 700
  /\ uiManager.modeCalls = 1
  /\ uiManager.lastModePress = 700
  /\ uiManager.currentMode = UI_MODE_SENSORS
  /\ uiManager.currentSensorPage = SENSOR_PAGE_TEMP_IN
  /\ uiManager.settingsMenuItem = 0

\* C29: the software second tick advances the time of day by exactly one
\* second modulo 24 hours, keeps hours, minutes and seconds in range, and
\* requests the hour animation exactly on the ticks after which minutes and
\* seconds are both 0.
C29_TickAdvancesOneSecond ==
  [][ lastOp' = "updateInternalTime" =>
        /\ currentTime'.hours \in 0..23
        /\ currentTime'.minutes \in 0..59
        /\ currentTime'.seconds \in 0..59
        /\ SecondOfDay(currentTime')
             = (SecondOfDay(currentTime) + 1) % 86400
        /\ inHourAnimation'
             = (inHourAnimation
                \/ (currentTime'.minutes = 0 /\ currentTime'.seconds = 0))
        /\ (~inHourAnimation /\ inHourAnimation')
             => animationStart' = millis ]_vars

\* the tick at 23:59:59
C29_Witness ==
  /\ lastOp = "updateInternalTime"
  /\ lastHour = 23
  /\ lastMinute = 59
  /\ lastSecond = 59
  /\ currentTime.hours = 0
  /\ currentTime.minutes = 0
  /\ currentTime.seconds = 0
  /\ inHourAnimation

\* C30: whenever update() returns, a display timer started with
\* startDisplayTimer(durationMs) at t0 is active if and only if
\* millis() < t0 + durationMs, however often update() was called; and
\* displayTimer is never negative.
C30_DisplayTimerDuration ==
  /\ [][ (tmPc = "timers" /\ tmPc' = "idle"
          /\ displayStartMillis # NotStarted) =>
           ((displayTimer' > 0)
              <=> (tmMillis' - displayStartMillis < displayDuration)) ]_vars
  /\ [](displayTimer >= 0)

\* C31: every started animation ends: in every reachable state an active
\* animation has ticks left (animationActive implies animationTimer > 0),
\* so that the update() calls that follow bring it to its end.
C31_AnimationEnds ==
  animationActive => animationTimer > 0

\* C32: LED array indices stay in bounds: every index at which an
\* operation has written hoursLEDs is in 0..11 and every index at which it
\* has written minutesLEDs is in 0..59.
C32_LEDIndicesInBounds ==
  /\ hoursWrites # NoWrites =>
       (hoursWrites[1] >= 0 /\ hoursWrites[2] <= LED_RING_HOURS_COUNT - 1)
  /\ minutesWrites # NoWrites =>
       (minutesWrites[1] >= 0
        /\ minutesWrites[2] <= LED_RING_MINUTES_COUNT - 1)

\* an update() pass after a sync, in the afternoon, that drew an animation
\* frame and then the time
C32_Witness ==
  /\ lastOp = "update"
  /\ timeValidated
  /\ inHourAnimation
  /\ currentTime.hours >= 12
  /\ flShowCalls = 2
  /\ hoursWrites = << 0, LED_RING_HOURS_COUNT - 1 >>
  /\ minutesWrites = << 0, LED_RING_MINUTES_COUNT - 1 >>

\* C33: the elapsed-time tests survive the wrap-around of millis(): for a
\* stored reading and a reading taken gap < 2^32 ms later, each of the
\* three tests gives what the comparison of gap itself with the threshold
\* gives.
C33_ElapsedTestsSurviveWrap ==
  /\ "tick" \in tested => (tickDue <=> ~Less32(gap, U32(1000)))
  /\ "animation" \in tested => (animationRunning <=> Less32(gap, U32(5000)))
  /\ "timeout" \in tested => (uiTimedOut <=> Less32(U32(UI_TIMEOUT), gap))

\* a reading stored 1000 ms before the wrap and read 5000 ms later
C33_Witness ==
  /\ tested = {"tick", "animation", "timeout"}
  /\ storedMillis = << 65535, 64536 >>
  /\ gap = U32(5000)
  /\ currentMillis = U32(4000)
  /\ tickDue
  /\ ~animationRunning
  /\ ~uiTimedOut

\* C34: the brightness level always matches the night flag:
\* currentBrightness is NIGHT_BRIGHTNESS while nightModeActive is true and
\* 255 while it is false, and an operation other than update(), the only
\* caller of updateNightMode(), changes neither of the two.
C34_BrightnessMatchesNightFlag ==
  /\ [](currentBrightness
          = (IF nightModeActive THEN NIGHT_BRIGHTNESS ELSE 255))
  /\ [][ lastOp' # "update" =>
           /\ nightModeActive' = nightModeActive
           /\ currentBrightness' = currentBrightness ]_vars

\* a redraw forced at night, after update() dimmed the rings
C34_Witness ==
  /\ lastOp = "forceDisplayUpdate"
  /\ nightModeActive
  /\ currentBrightness = NIGHT_BRIGHTNESS
  /\ flBrightness = NIGHT_BRIGHTNESS
  /\ currentTime.hours >= NIGHT_MODE_START

=============================================================================
